---- MODULE Spec2Model ----
(***************************************************************************)
(* Model of the mortgage calculation core (mortgage.js: payment solver and  *)
(* schedule builder) and of the rent-vs-buy projector that imports it.      *)
(*                                                                          *)
(* JavaScript numbers are IEEE-754 binary floating point values.  They are  *)
(* modelled as binary floating point values with a significand of          *)
(* Precision bits (instead of 53), rounded to nearest, ties to even, after  *)
(* every arithmetic operation, plus NaN and the two infinities.  The        *)
(* exponent is not bounded: the inputs explored stay far from overflow.     *)
(* Math.pow with an integer exponent is computed by repeated multiplication.*)
(***************************************************************************)
EXTENDS Integers, Sequences, FiniteSets, TLC

(***************************************************************************)
(* Bounds of the model.                                                     *)
(***************************************************************************)
Precision == 12
MaxPrincipal == 4
MaxOffset == 3

(***************************************************************************)
(* Floating point numbers: [k |-> "num", m |-> significand, e |-> exponent] *)
(* is the number m * 2^e, with m = 0 and e = 0, or                          *)
(* 2^(Precision-1) <= |m| < 2^Precision.                                    *)
(***************************************************************************)
NaN == [k |-> "nan", m |-> 0, e |-> 0]
PosInf == [k |-> "inf", m |-> 1, e |-> 0]
NegInf == [k |-> "inf", m |-> -1, e |-> 0]
Zero == [k |-> "num", m |-> 0, e |-> 0]

IsNaN(a) == a.k = "nan"
IsInf(a) == a.k = "inf"
IsNum(a) == a.k = "num"

Abs(i) == IF i < 0 THEN -i ELSE i
Sign(i) == IF i < 0 THEN -1 ELSE IF i > 0 THEN 1 ELSE 0

RECURSIVE BitLen(_)
BitLen(i) == IF i = 0 THEN 0 ELSE 1 + BitLen(i \div 2)

\* Round the number sgn * mag * 2^ex (plus a non-zero fraction of the last
\* bit of mag when sticky) to Precision bits, to nearest, ties to even.
RoundF(sgn, mag, ex, sticky) ==
  IF mag = 0 THEN Zero
  ELSE LET bl == BitLen(mag) IN
    IF bl <= Precision
    THEN [k |-> "num", m |-> sgn * mag * 2^(Precision - bl), e |-> ex - (Precision - bl)]
    ELSE LET sh == bl - Precision
             q == mag \div 2^sh
             rest == mag % 2^sh
             half == 2^(sh - 1)
             up == \/ rest > half
                   \/ rest = half /\ (sticky \/ q % 2 = 1)
             r == IF up THEN q + 1 ELSE q
         IN IF r = 2^Precision
            THEN [k |-> "num", m |-> sgn * 2^(Precision - 1), e |-> ex + sh + 1]
            ELSE [k |-> "num", m |-> sgn * r, e |-> ex + sh]

\* The number i * 2^ex as a floating point value (a numeric literal).
Num(i, ex) == RoundF(Sign(i), Abs(i), ex, FALSE)
FromInt(i) == Num(i, 0)

FNeg(a) == IF IsNaN(a) THEN NaN ELSE [a EXCEPT !.m = -a.m]

\* -1, 0, 1 as a is below, equal to, above b (numbers and infinities).
Cmp(a, b) ==
  IF IsInf(a) \/ IsInf(b)
  THEN IF IsInf(a) /\ IsInf(b) THEN Sign(a.m - b.m)
       ELSE IF IsInf(a) THEN a.m ELSE -b.m
  ELSE IF Sign(a.m) # Sign(b.m) THEN Sign(Sign(a.m) - Sign(b.m))
  ELSE IF a.m = 0 THEN 0
  ELSE IF a.e # b.e THEN Sign(a.m) * Sign(a.e - b.e)
  ELSE Sign(a.m - b.m)

\* JavaScript <, <=, >, ===: false as soon as an operand is NaN.
FLt(a, b) == ~IsNaN(a) /\ ~IsNaN(b) /\ Cmp(a, b) < 0
FLe(a, b) == ~IsNaN(a) /\ ~IsNaN(b) /\ Cmp(a, b) <= 0
FGt(a, b) == FLt(b, a)
FGe(a, b) == FLe(b, a)
FEq(a, b) == ~IsNaN(a) /\ ~IsNaN(b) /\ Cmp(a, b) = 0

AddNum(a, b) ==
  IF a.m = 0 THEN b
  ELSE IF b.m = 0 THEN a
  ELSE LET hi == IF a.e >= b.e THEN a ELSE b
           lo == IF a.e >= b.e THEN b ELSE a
           d == hi.e - lo.e
       IN IF d > Precision + 1 THEN hi
          ELSE LET s == hi.m * 2^d + lo.m
               IN RoundF(Sign(s), Abs(s), lo.e, FALSE)

\* JavaScript a + b
FAdd(a, b) ==
  IF IsNaN(a) \/ IsNaN(b) THEN NaN
  ELSE IF IsInf(a) THEN (IF IsInf(b) /\ a.m # b.m THEN NaN ELSE a)
  ELSE IF IsInf(b) THEN b
  ELSE AddNum(a, b)

\* JavaScript a - b
FSub(a, b) == FAdd(a, FNeg(b))

\* JavaScript a * b
FMul(a, b) ==
  IF IsNaN(a) \/ IsNaN(b) THEN NaN
  ELSE IF IsInf(a) \/ IsInf(b)
  THEN IF a.m = 0 \/ b.m = 0 THEN NaN
       ELSE IF Sign(a.m) * Sign(b.m) > 0 THEN PosInf ELSE NegInf
  ELSE RoundF(Sign(a.m) * Sign(b.m), Abs(a.m) * Abs(b.m), a.e + b.e, FALSE)

\* JavaScript a / b
FDiv(a, b) ==
  IF IsNaN(a) \/ IsNaN(b) THEN NaN
  ELSE IF IsInf(a)
  THEN IF IsInf(b) THEN NaN
       ELSE IF a.m * (IF b.m < 0 THEN -1 ELSE 1) > 0 THEN PosInf ELSE NegInf
  ELSE IF IsInf(b) THEN Zero
  ELSE IF b.m = 0
  THEN IF a.m = 0 THEN NaN ELSE IF a.m > 0 THEN PosInf ELSE NegInf
  ELSE IF a.m = 0 THEN Zero
  ELSE LET n == Abs(a.m) * 2^(Precision + 2)
           q == n \div Abs(b.m)
       IN RoundF(Sign(a.m) * Sign(b.m), q, a.e - b.e - (Precision + 2),
                 n % Abs(b.m) # 0)

\* Math.max(a, b)
MathMax(a, b) ==
  IF IsNaN(a) \/ IsNaN(b) THEN NaN
  ELSE IF Cmp(a, b) >= 0 THEN a ELSE b

\* Math.min(a, b)
MathMin(a, b) ==
  IF IsNaN(a) \/ IsNaN(b) THEN NaN
  ELSE IF Cmp(a, b) <= 0 THEN a ELSE b

\* Math.round(a) of a finite number, as an integer: floor(a + 1/2).
MathRound(a) ==
  IF a.m = 0 THEN 0
  ELSE IF a.e >= 0 THEN a.m * 2^a.e
  ELSE IF -a.e > Precision + 1 THEN 0
  ELSE LET twice == 2 * a.m + 2^(-a.e)    \* (a + 1/2) * 2^(1 - a.e)
           den == 2^(1 - a.e)
       IN IF twice >= 0 THEN twice \div den
          ELSE -((-twice + den - 1) \div den)

\* Math.pow(base, n) for an integer n >= 0, by repeated multiplication.
RECURSIVE MathPow(_, _)
MathPow(base, n) == IF n = 0 THEN FromInt(1) ELSE FMul(MathPow(base, n - 1), base)

(***************************************************************************)
(* mortgage.js                                                              *)
(***************************************************************************)
Undefined == [k |-> "undefined", m |-> 0, e |-> 0]

\* Number(x) in place of x ?? d: undefined becomes NaN.
Nullish_AsNumber(x, d) == IF x.k = "undefined" THEN NaN ELSE x

\* x ?? d
Nullish(x, d) == IF x.k = "undefined" THEN d ELSE x

Returned(v) == [threw |-> FALSE, value |-> v]
Thrown(msg) == [threw |-> TRUE, message |-> msg]

\* periodsPerYear with a default of 12 in place of the throw.
periodsPerYear_DefaultMonthly(frequency) ==
  CASE frequency = "fortnightly" -> Returned(26)
    [] frequency = "weekly" -> Returned(52)
    [] OTHER -> Returned(12)

periodsPerYear(frequency) ==
  CASE frequency = "monthly" -> Returned(12)
    [] frequency = "fortnightly" -> Returned(26)
    [] frequency = "weekly" -> Returned(52)
    [] OTHER -> Thrown("Unsupported frequency: " \o frequency)

clampMin0(x) == IF FLt(x, Zero) THEN Zero ELSE x

\* effectivePrincipal without the floor at 0.
effectivePrincipal_NoFloor(balance, offsetBalance) ==
  FSub(balance, MathMax(Zero, offsetBalance))

\* effectivePrincipal that leaves the offset out.
effectivePrincipal_NoOffset(balance, offsetBalance) ==
  MathMax(Zero, balance)

effectivePrincipal(balance, offsetBalance) ==
  MathMax(Zero, FSub(balance, MathMax(Zero, offsetBalance)))

repaymentPayment(principal, periodicRate, nPeriods) ==
  IF nPeriods <= 0 THEN NaN
  ELSE IF FEq(periodicRate, Zero) THEN FDiv(principal, FromInt(nPeriods))
  ELSE LET pow == MathPow(FAdd(FromInt(1), periodicRate), nPeriods)
       IN FDiv(FMul(principal, FMul(periodicRate, pow)), FSub(pow, FromInt(1)))

\* principalPaid without the cap at the balance.
principalPaidOf_NoCap(type, payment, interest, balance) ==
  IF type = "interestOnly" THEN Zero
  ELSE MathMax(Zero, FSub(payment, interest))

\* principalPaid computed as for a repayment loan whatever the type.
principalPaidOf_AnyType(type, payment, interest, balance) ==
  LET p == MathMax(Zero, FSub(payment, interest))
  IN IF FGt(p, balance) THEN balance ELSE p

\* The principal repaid in one period, from the balance and the interest.
principalPaidOf(type, payment, interest, balance) ==
  IF type = "interestOnly" THEN Zero
  ELSE LET p == MathMax(Zero, FSub(payment, interest))
       IN IF FGt(p, balance) THEN balance ELSE p

\* The body of the loop of buildSchedule: the row of one period.
scheduleRow(period, balance, type, payment, periodicRate, offsetBalance) ==
  LET eff == effectivePrincipal(balance, offsetBalance)
      interest == FMul(eff, periodicRate)
      principalPaid == principalPaidOf(type, payment, interest, balance)
      newBalance == MathMax(Zero, FSub(balance, principalPaid))
  IN [period |-> period, payment |-> payment, interest |-> interest,
      principalPaid |-> principalPaid, balance |-> newBalance,
      effectivePrincipal |-> eff]

\* The loop condition without the break on balance <= 0.
loopContinues_NoBreak(period, nPeriods, balance) ==
  period <= nPeriods

\* Whether the loop of buildSchedule runs the body for this period.
loopContinues(period, nPeriods, balance) ==
  period <= nPeriods /\ ~FLe(balance, Zero)

\* The loop of buildSchedule, from period on, with the rows pushed so far.
RECURSIVE scheduleLoop(_, _, _, _, _, _, _, _)
scheduleLoop(period, nPeriods, balance, schedule, type, payment, periodicRate, offsetBalance) ==
  IF ~loopContinues(period, nPeriods, balance) THEN schedule
  ELSE LET row == scheduleRow(period, balance, type, payment, periodicRate, offsetBalance)
       IN scheduleLoop(period + 1, nPeriods, row.balance, Append(schedule, row),
                       type, payment, periodicRate, offsetBalance)

buildSchedule(params) ==
  LET principal == clampMin0(params.principal)
      annualRatePct == clampMin0(params.annualRatePct)
      years == clampMin0(params.years)
      frequency == params.frequency
      type == params.type
      offsetBalance == clampMin0(Nullish(params.offsetBalance, Zero))
      ppy == periodsPerYear(frequency)
  IN IF ppy.threw THEN ppy
     ELSE LET nPeriods == MathRound(FMul(years, FromInt(ppy.value)))
              periodicRate == FDiv(FDiv(annualRatePct, FromInt(100)), FromInt(ppy.value))
              payment == IF type = "interestOnly"
                         THEN FMul(principal, periodicRate)
                         ELSE repaymentPayment(principal, periodicRate, nPeriods)
          IN Returned([payment |-> payment, periodicRate |-> periodicRate,
                       nPeriods |-> nPeriods,
                       schedule |-> scheduleLoop(1, nPeriods, principal, <<>>, type,
                                                 payment, periodicRate, offsetBalance)])

(***************************************************************************)
(* The rent-vs-buy projector.  The result keeps the fields that depend on   *)
(* the mortgage payment and the balance walk; the inflation totals, the     *)
(* stamp duty and the sale proceeds are left out.                           *)
(***************************************************************************)
monthlyMortgagePayment(principal, annualRatePct, years) ==
  LET r == FDiv(FDiv(annualRatePct, FromInt(100)), FromInt(12))
      n == MathRound(FMul(years, FromInt(12)))
  IN IF n <= 0 THEN NaN ELSE repaymentPayment(principal, r, n)

clamp01(x) == MathMax(Zero, MathMin(FromInt(1), x))

\* The balance walk without the floor of the balance at 0.
RECURSIVE balanceWalk_NoFloor(_, _, _, _)
balanceWalk_NoFloor(count, balance, pmt, r) ==
  IF count <= 0 THEN balance
  ELSE LET interest == FMul(balance, r)
           principalPaid == MathMax(Zero, FSub(pmt, interest))
       IN balanceWalk_NoFloor(count - 1, FSub(balance, principalPaid), pmt, r)

\* The balance walk of rentVsBuy: count iterations from balance.
RECURSIVE balanceWalk(_, _, _, _)
balanceWalk(count, balance, pmt, r) ==
  IF count <= 0 THEN balance
  ELSE LET interest == FMul(balance, r)
           principalPaid == MathMax(Zero, FSub(pmt, interest))
       IN balanceWalk(count - 1, MathMax(Zero, FSub(balance, principalPaid)), pmt, r)

Min(a, b) == IF a <= b THEN a ELSE b

rentVsBuy(params) ==
  LET price == params.price
      deposit == FMul(price, clamp01(FDiv(params.depositPct, FromInt(100))))
      principal == MathMax(Zero, FSub(price, deposit))
      mortgageMonthly == monthlyMortgagePayment(principal, params.mortgageRatePct, params.termYears)
      ownerMonthly == FAdd(mortgageMonthly, params.ownerMonthlyCosts)
      rentMonthly0 == FAdd(params.rentMonthly, params.rentExtraMonthly)
      months == MathRound(FMul(params.horizonYears, FromInt(12)))
      r == FDiv(FDiv(params.mortgageRatePct, FromInt(100)), FromInt(12))
      n == MathRound(FMul(params.termYears, FromInt(12)))
  IN [deposit |-> deposit, principal |-> principal,
      mortgageMonthly |-> mortgageMonthly, rentMonthly0 |-> rentMonthly0,
      ownerMonthly |-> ownerMonthly,
      rentTotalBasic |-> FMul(rentMonthly0, FromInt(months)),
      buyTotalBasic |-> FMul(ownerMonthly, FromInt(months)),
      remainingBalance |-> balanceWalk(Min(months, n), principal, mortgageMonthly, r)]

(***************************************************************************)
(* The inputs explored.                                                     *)
(***************************************************************************)
Principals == {Num(i, 0) : i \in -1..MaxPrincipal}
RatePcts == {Num(-1, 0), Zero, Num(5, 0), Num(24, 0)}
Years == {Num(-1, 0), Zero, Num(1, -3), Num(1, -2)}
Frequencies == {"monthly", "fortnightly", "weekly", "daily"}
PaymentTypes == {"repayment", "interestOnly"}
\* An offset balance below the rounding unit of every positive principal.
TinyOffset == Num(1, -(Precision + 2))
Offsets == {Undefined, TinyOffset} \cup {Num(i, 0) : i \in -1..MaxOffset}

LoanParameters ==
  [principal : Principals, annualRatePct : RatePcts, years : Years,
   frequency : Frequencies, type : PaymentTypes, offsetBalance : Offsets]

SolverArgs ==
  [principal : {Num(i, 0) : i \in 0..MaxPrincipal},
   periodicRate : {Zero, Num(1, -6), Num(1, -3)},
   nPeriods : -1..3]

AffordabilityParams ==
  [price : {Num(i, 0) : i \in 0..MaxPrincipal},
   depositPct : {Zero, Num(10, 0), Num(100, 0), Num(150, 0)},
   mortgageRatePct : {Zero, Num(5, 0), Num(24, 0)},
   termYears : {Zero, Num(1, -3), Num(1, -2)},
   horizonYears : {Zero, Num(1, -3), Num(1, -2), Num(1, -1)},
   ownerMonthlyCosts : {Zero, Num(1, 0)},
   rentMonthly : {Num(1, 0)}, rentExtraMonthly : {Zero}]

MortgageArgs ==
  [principal : {Num(i, 0) : i \in 0..MaxPrincipal},
   annualRatePct : {Zero, Num(5, 0), Num(24, 0)},
   years : {Num(-1, 0), Zero, Num(1, -3), Num(1, -2)}]

Calls ==
  {[fn |-> "buildSchedule", params |-> p] : p \in LoanParameters}
  \cup {[fn |-> "repaymentPayment", params |-> p] : p \in SolverArgs}
  \cup {[fn |-> "monthlyMortgagePayment", params |-> p] : p \in MortgageArgs}
  \cup {[fn |-> "rentVsBuy", params |-> p] : p \in AffordabilityParams}

(***************************************************************************)
(* The state machine: one call of one function on one input.                *)
(***************************************************************************)
VARIABLES call, pc, result
vars == <<call, pc, result>>

Init ==
  /\ call \in Calls
  /\ pc = "called"
  /\ result = Undefined

BuildSchedule ==
  /\ pc = "called" /\ call.fn = "buildSchedule"
  /\ LET res == buildSchedule(call.params)
     IN /\ pc' = IF res.threw THEN "threw" ELSE "returned"
        /\ result' = IF res.threw THEN res.message ELSE res.value
  /\ UNCHANGED call

RepaymentPayment ==
  /\ pc = "called" /\ call.fn = "repaymentPayment"
  /\ result' = repaymentPayment(call.params.principal, call.params.periodicRate,
                                call.params.nPeriods)
  /\ pc' = "returned"
  /\ UNCHANGED call

MonthlyMortgagePayment ==
  /\ pc = "called" /\ call.fn = "monthlyMortgagePayment"
  /\ result' = monthlyMortgagePayment(call.params.principal, call.params.annualRatePct,
                                      call.params.years)
  /\ pc' = "returned"
  /\ UNCHANGED call

RentVsBuy ==
  /\ pc = "called" /\ call.fn = "rentVsBuy"
  /\ result' = rentVsBuy(call.params)
  /\ pc' = "returned"
  /\ UNCHANGED call

Next == BuildSchedule \/ RepaymentPayment \/ MonthlyMortgagePayment \/ RentVsBuy

Spec == Init /\ [][Next]_vars

(***************************************************************************)
(* Properties.                                                              *)
(***************************************************************************)
ScheduleBuilt == pc = "returned" /\ call.fn = "buildSchedule"
Rows == result.schedule
One == FromInt(1)

\* The inputs of the call as buildSchedule uses them, after clamping.
InPrincipal == clampMin0(call.params.principal)
InOffset == clampMin0(Nullish(call.params.offsetBalance, Zero))
Repayment == call.params.type = "repayment"
InterestOnly == call.params.type = "interestOnly"

\* The balance before period i of the schedule built.
BalanceBefore(i) == IF i = 1 THEN InPrincipal ELSE Rows[i - 1].balance

\* The schedule of the same loan with another offset balance.
WithOffset(o) == buildSchedule([call.params EXCEPT !.offsetBalance = o]).value

\* C1: every emitted row has balance >= 0 and effectivePrincipal >= 0, and
\* the running balance never increases from one row to the next, whatever
\* the inputs are (negative inputs are clamped).
C1_BalanceNonNegative ==
  ScheduleBuilt =>
    \A i \in 1..Len(Rows) :
      /\ FGe(Rows[i].balance, Zero)
      /\ FGe(Rows[i].effectivePrincipal, Zero)
      /\ FLe(Rows[i].balance, BalanceBefore(i))

C1_Witness ==
  /\ ScheduleBuilt
  /\ FLt(call.params.offsetBalance, Zero)
  /\ Len(Rows) >= 2
  /\ FLt(Rows[2].balance, Rows[1].balance)
  /\ FLt(Rows[1].balance, InPrincipal)

\* C2: at most periodCount rows, numbered 1, 2, ..., k without a gap, and no
\* row for a period that starts with a balance <= 0: only the last row of a
\* schedule can have balance 0.
C2_Termination ==
  ScheduleBuilt =>
    /\ Len(Rows) <= (IF result.nPeriods > 0 THEN result.nPeriods ELSE 0)
    /\ \A i \in 1..Len(Rows) :
         /\ Rows[i].period = i
         /\ FGt(BalanceBefore(i), Zero)
         /\ i < Len(Rows) => FGt(Rows[i].balance, Zero)

C2_Witness ==
  /\ ScheduleBuilt
  /\ Len(Rows) >= 2
  /\ Len(Rows) < result.nPeriods
  /\ FEq(Rows[Len(Rows)].balance, Zero)

\* C3: a repayment loan with principal > 0, periodCount > 0 and
\* offsetBalance >= principal has effectivePrincipal = 0, interest = 0 and
\* principalPaid > 0 in every row, and principalPaid is the whole payment,
\* except in the final row where it is capped at the remaining balance.
FullOffset ==
  /\ ScheduleBuilt /\ Repayment
  /\ FGt(InPrincipal, Zero) /\ result.nPeriods > 0
  /\ FGe(InOffset, InPrincipal)

C3_FullOffset ==
  FullOffset =>
    /\ Len(Rows) >= 1
    /\ \A i \in 1..Len(Rows) :
         /\ FEq(Rows[i].effectivePrincipal, Zero)
         /\ FEq(Rows[i].interest, Zero)
         /\ FGt(Rows[i].principalPaid, Zero)
         /\ i < Len(Rows) => FEq(Rows[i].principalPaid, result.payment)
         /\ i = Len(Rows) =>
              FEq(Rows[i].principalPaid, MathMin(result.payment, BalanceBefore(i)))

C3_Witness ==
  /\ FullOffset
  /\ FGt(result.periodicRate, Zero)
  /\ Len(Rows) >= 2
  /\ FLt(Rows[Len(Rows)].principalPaid, result.payment)
  /\ FEq(Rows[Len(Rows)].balance, Zero)

\* The non-negative offset balances of the data model.
NonNegOffsets == {o \in Offsets : IsNum(o) /\ FGe(o, Zero)}
OffsetGiven == IsNum(call.params.offsetBalance) /\ FGe(call.params.offsetBalance, Zero)

\* The periods that appear in the schedule built and in the one with offset o.
InBoth(o) == 1..Min(Len(Rows), Len(WithOffset(o).schedule))

FAbs(a) == IF FLt(a, Zero) THEN FNeg(a) ELSE a

\* a and b differ by at most 4 units in the last place of ref.
WithinRounding(a, b, ref) ==
  FLe(FAbs(FSub(a, b)), [k |-> "num", m |-> 2^(Precision - 1), e |-> ref.e - Precision + 3])

\* C4 as stated: a larger offsetBalance strictly decreases the interest of
\* every period of both schedules (or keeps it at zero), and the first-period
\* interest of the zero-offset schedule minus that of the offset schedule is
\* exactly offsetBalance x periodicRate when offsetBalance < principal.
C4_OffsetMonotonicityExact ==
  (ScheduleBuilt /\ OffsetGiven) =>
    /\ \A o \in NonNegOffsets : FGt(o, InOffset) =>
         \A i \in InBoth(o) :
           \/ FLt(WithOffset(o).schedule[i].interest, Rows[i].interest)
           \/ FEq(WithOffset(o).schedule[i].interest, Zero) /\ FEq(Rows[i].interest, Zero)
    /\ (FLt(InOffset, InPrincipal) /\ Len(Rows) >= 1) =>
         FEq(FSub(WithOffset(Zero).schedule[1].interest, Rows[1].interest),
             FMul(InOffset, result.periodicRate))

\* C4 amended: a larger (non-negative) offsetBalance never increases the
\* interest of any period of both schedules, and the first-period interest
\* of the zero-offset schedule minus that of the offset schedule is
\* offsetBalance x periodicRate up to floating point rounding (4 units in the
\* last place of the zero-offset interest) when offsetBalance < principal.
C4_OffsetMonotonicity ==
  (ScheduleBuilt /\ OffsetGiven) =>
    /\ \A o \in NonNegOffsets : FGt(o, InOffset) =>
         \A i \in InBoth(o) :
           FLe(WithOffset(o).schedule[i].interest, Rows[i].interest)
    /\ (FLt(InOffset, InPrincipal) /\ Len(Rows) >= 1) =>
         WithinRounding(FSub(WithOffset(Zero).schedule[1].interest, Rows[1].interest),
                        FMul(InOffset, result.periodicRate),
                        WithOffset(Zero).schedule[1].interest)

C4_Witness ==
  /\ ScheduleBuilt /\ OffsetGiven /\ Repayment
  /\ FGt(InOffset, TinyOffset) /\ FLt(InOffset, InPrincipal)
  /\ FGt(result.periodicRate, Zero)
  /\ Len(Rows) >= 2 /\ Len(WithOffset(Zero).schedule) >= 2
  /\ FLt(Rows[2].interest, WithOffset(Zero).schedule[2].interest)
  /\ ~FEq(FSub(WithOffset(Zero).schedule[1].interest, Rows[1].interest),
          FMul(InOffset, result.periodicRate))

\* C5: for a repayment loan with offsetBalance = 0, principal > 0 and
\* periodCount n > 0 the schedule has exactly n rows, the balance is > 0
\* after each of the first n-1 rows and is 0 after the n-th row.
C5_FullyAmortizes ==
  (/\ ScheduleBuilt /\ Repayment /\ FEq(InOffset, Zero)
   /\ FGt(InPrincipal, Zero) /\ result.nPeriods > 0) =>
     /\ Len(Rows) = result.nPeriods
     /\ \A i \in 1..(Len(Rows) - 1) : FGt(Rows[i].balance, Zero)
     /\ FEq(Rows[Len(Rows)].balance, Zero)

\* C6: the schedule built with offsetBalance = 0 is the schedule built from
\* the same parameters with offsetBalance omitted, field by field.
C6_OffsetNeutrality ==
  (ScheduleBuilt /\ FEq(call.params.offsetBalance, Zero)) =>
    result = WithOffset(Undefined)

C6_Witness ==
  /\ ScheduleBuilt /\ FEq(call.params.offsetBalance, Zero)
  /\ FGt(result.periodicRate, Zero)
  /\ Len(Rows) >= 2
  /\ FGt(Rows[1].interest, Zero)

\* C7: repaymentPayment returns NaN exactly when periodCount <= 0, and every
\* caller checks for NaN before using the payment: no value a caller
\* computes from the payment is NaN.
C7_SentinelChecked ==
  /\ (pc = "returned" /\ call.fn = "repaymentPayment") =>
       (IsNaN(result) <=> call.params.nPeriods <= 0)
  /\ (pc = "returned" /\ call.fn = "monthlyMortgagePayment") =>
       (IsNaN(result) <=> MathRound(FMul(call.params.years, FromInt(12))) <= 0)
  /\ (pc = "returned" /\ call.fn = "rentVsBuy") =>
       (~IsNaN(result.ownerMonthly) /\ ~IsNaN(result.buyTotalBasic))
  /\ (ScheduleBuilt /\ IsNaN(result.payment)) => Len(Rows) = 0

\* C8: buildSchedule throws exactly when the frequency is not monthly,
\* fortnightly or weekly; the error names the frequency and no schedule is
\* returned; with a supported frequency a schedule is returned.
C8_UnsupportedFrequency ==
  (call.fn = "buildSchedule" /\ pc # "called") =>
    /\ pc = "threw" <=> call.params.frequency \notin {"monthly", "fortnightly", "weekly"}
    /\ pc = "threw" => result = "Unsupported frequency: " \o call.params.frequency
    /\ pc = "returned" => DOMAIN result = {"payment", "periodicRate", "nPeriods", "schedule"}

C8_Witness ==
  /\ call.fn = "buildSchedule" /\ pc = "threw"
  /\ call.params.frequency = "daily"
  /\ call.params.type = "interestOnly"
  /\ FGt(call.params.principal, Zero)

\* C9: an interest-only loan with principal > 0 and periodCount n > 0 has
\* payment = principal x periodicRate whatever the offset, principalPaid = 0
\* and balance = principal in every row, exactly n rows, and interest =
\* max(0, principal - offsetBalance) x periodicRate <= payment in every row.
C9_InterestOnly ==
  (/\ ScheduleBuilt /\ InterestOnly
   /\ FGt(InPrincipal, Zero) /\ result.nPeriods > 0) =>
     /\ result.payment = FMul(InPrincipal, result.periodicRate)
     /\ Len(Rows) = result.nPeriods
     /\ \A i \in 1..Len(Rows) :
          /\ FEq(Rows[i].principalPaid, Zero)
          /\ FEq(Rows[i].balance, InPrincipal)
          /\ Rows[i].payment = result.payment
          /\ Rows[i].interest =
               FMul(MathMax(Zero, FSub(InPrincipal, InOffset)), result.periodicRate)
          /\ FLe(Rows[i].interest, result.payment)

C9_Witness ==
  /\ ScheduleBuilt /\ InterestOnly
  /\ FGt(InOffset, Zero) /\ FLt(InOffset, InPrincipal)
  /\ FGt(result.periodicRate, Zero)
  /\ Len(Rows) >= 2
  /\ FLt(Rows[2].interest, result.payment)

\* C10: the remainingBalance of rentVsBuy is the running balance of the
\* monthly repayment schedule of the same loan without offset after
\* min(horizonMonths, termMonths) periods (the last row's balance if the
\* schedule ended earlier, the principal if there is no such row), and it
\* lies between 0 and the principal.
Projected == pc = "returned" /\ call.fn = "rentVsBuy"
WalkCount ==
  Min(MathRound(FMul(call.params.horizonYears, FromInt(12))),
      MathRound(FMul(call.params.termYears, FromInt(12))))
SameLoan ==
  buildSchedule([principal |-> result.principal,
                 annualRatePct |-> call.params.mortgageRatePct,
                 years |-> call.params.termYears,
                 frequency |-> "monthly", type |-> "repayment",
                 offsetBalance |-> Zero]).value.schedule
BalanceAfter(schedule, count, principal) ==
  IF count <= 0 \/ Len(schedule) = 0 THEN principal
  ELSE schedule[Min(count, Len(schedule))].balance

C10_WalkMatchesSchedule ==
  Projected =>
    /\ result.remainingBalance = BalanceAfter(SameLoan, WalkCount, result.principal)
    /\ FGe(result.remainingBalance, Zero)
    /\ FLe(result.remainingBalance, result.principal)

C10_Witness ==
  /\ Projected
  /\ WalkCount >= 2
  /\ FGt(call.params.mortgageRatePct, Zero)
  /\ FGt(result.remainingBalance, Zero)
  /\ FLt(result.remainingBalance, result.principal)

====
